---- MODULE Spec2Model ----
(***************************************************************************)
(* Round winner determination of validator/tournament/utils.py and the     *)
(* score filter of validator/db/sql/tournament_performance.py.             *)
(*                                                                         *)
(* Numbers.  Thresholds are in basis points (10% = 1000 of 10000), so      *)
(* that boss_loss * (1 - threshold) < opponent_loss is the integer         *)
(* comparison boss_loss * (10000 - threshold) < opponent_loss * 10000.     *)
(* An adjusted loss is <<v>>, v an integer in hundredths, or NoLoss when   *)
(* the ranking gave none.  Raw losses are never computed with: they are    *)
(* None, NaN or a number, written as strings.                              *)
(***************************************************************************)
EXTENDS Integers, Sequences, FiniteSets, TLC

(* ---------------------------- bounds ---------------------------------- *)
MaxTasks == 3        \* tasks of a knockout or boss round
MaxWins == 3         \* largest value count_champion_consecutive_wins returns
MaxScores == 2       \* score rows of one task
MaxGroupTasks == 6   \* tasks of a group round
MaxVotes == 4        \* per-task winners when the vote alone is examined
MaxNodes == 2        \* nodes assigned to a task that is replaced

(* --------------------------- values ----------------------------------- *)
None == "None"
NaN == "NaN"
SKIPPED == "skipped"

EMISSION_BURN_HOTKEY == "burn"
Challengers == {"h1", "h2"}
BossRoundHotkeys == {EMISSION_BURN_HOTKEY} \cup Challengers

KNOCKOUT == "knockout"
GROUP == "group"

INSTRUCTTEXTTASK == "InstructTextTask"
DPOTASK == "DpoTask"
GRPOTASK == "GrpoTask"
IMAGETASK == "ImageTask"
TaskTypes == {INSTRUCTTEXTTASK, GRPOTASK, IMAGETASK}

SUCCESS == "success"
FAILURE == "failure"

BasisPoints == 10000
FIRST_DEFENSE_THRESHOLD == 1000
SECOND_DEFENSE_THRESHOLD == 750
STEADY_STATE_THRESHOLD == 500
SYNTH_LOSS_DEFAULT == "1000.0"
NUM_WINNERS_TO_ADVANCE == 2

RawLosses == {None, NaN, "2.0"}
NoLoss == << >>
AdjustedLosses == {<<v>> : v \in {-100, 0, 85, 95, 100, 105}}

(* --------------------------- helpers ---------------------------------- *)
Range(s) == {s[i] : i \in 1..Len(s)}

SeqsUpTo(S, len) == UNION {[1..k -> S] : k \in 0..len}

IsNaN(loss) == loss = NaN

(* ---------------- get_progressive_threshold --------------------------- *)
get_progressive_threshold_swapped(wins) ==
    IF wins < 1 THEN FIRST_DEFENSE_THRESHOLD
    ELSE IF wins = 1 THEN SECOND_DEFENSE_THRESHOLD
    ELSE STEADY_STATE_THRESHOLD

get_progressive_threshold(wins) ==
    IF wins <= 1 THEN FIRST_DEFENSE_THRESHOLD
    ELSE IF wins = 2 THEN SECOND_DEFENSE_THRESHOLD
    ELSE STEADY_STATE_THRESHOLD

(* ---------------- score rows and their filters ------------------------ *)
ScoreRows == [hotkey : BossRoundHotkeys, test_loss : RawLosses, synth_loss : RawLosses]

\* rows of one task: one row per (task, hotkey), in any order
ScoreLists == {s \in SeqsUpTo(ScoreRows, MaxScores) :
                 \A i, j \in 1..Len(s) : i # j => s[i].hotkey # s[j].hotkey}

ValidLoss(loss) == loss # None /\ ~IsNaN(loss)

\* the comprehension of get_task_scores_as_models
RECURSIVE TaskScoreModels(_)
TaskScoreModels(raw_scores) ==
    IF raw_scores = << >> THEN << >>
    ELSE LET score == Head(raw_scores)
             rest == TaskScoreModels(Tail(raw_scores))
         IN IF ValidLoss(score.test_loss) /\ ValidLoss(score.synth_loss)
            THEN <<[hotkey |-> score.hotkey, test_loss |-> score.test_loss,
                    synth_loss |-> score.synth_loss]>> \o rest
            ELSE rest

\* the loop of get_task_results_for_ranking over scores_dicts (here: dicts)
RECURSIVE MinerResultsKeepAll(_, _)
MinerResultsKeepAll(dicts, task_type) ==
    IF dicts = << >> THEN << >>
    ELSE LET score_dict == Head(dicts)
             rest == MinerResultsKeepAll(Tail(dicts), task_type)
             synth == score_dict.synth_loss
         IN <<[hotkey |-> score_dict.hotkey,
               test_loss |-> score_dict.test_loss,
               synth_loss |-> IF synth # None /\ ~IsNaN(synth)
                              THEN synth ELSE SYNTH_LOSS_DEFAULT,
               is_text |-> task_type \in {INSTRUCTTEXTTASK, DPOTASK, GRPOTASK}]>>
            \o rest

RECURSIVE MinerResults(_, _)
MinerResults(dicts, task_type) ==
    IF dicts = << >> THEN << >>
    ELSE LET score_dict == Head(dicts)
             rest == MinerResults(Tail(dicts), task_type)
             test == score_dict.test_loss
             synth == score_dict.synth_loss
         IN IF test = None \/ IsNaN(test)
            THEN rest
            ELSE <<[hotkey |-> score_dict.hotkey,
                    test_loss |-> test,
                    synth_loss |-> IF synth # None /\ ~IsNaN(synth)
                                   THEN synth ELSE SYNTH_LOSS_DEFAULT,
                    is_text |-> task_type \in {INSTRUCTTEXTTASK, DPOTASK, GRPOTASK}]>>
                 \o rest

\* get_task_results_for_ranking: task is get_task's row (the task's type) or None
get_task_results_for_ranking(dicts, task) ==
    IF dicts = << >> THEN << >>
    ELSE IF task = None THEN << >>
    ELSE MinerResults(dicts, task)

(* ---------------- Counter and most_common ----------------------------- *)
\* the keys of Counter(values), in the order of their first appearance
RECURSIVE CounterKeys(_)
CounterKeys(values) ==
    IF values = << >> THEN << >>
    ELSE LET front == CounterKeys(SubSeq(values, 1, Len(values) - 1))
             last == values[Len(values)]
         IN IF last \in Range(front) THEN front ELSE Append(front, last)

Count(values, key) == Cardinality({i \in 1..Len(values) : values[i] = key})

\* Counter(values).items(): <<key, count>> pairs in insertion order
Counter(values) ==
    LET keys == CounterKeys(values)
    IN [i \in 1..Len(keys) |-> <<keys[i], Count(values, keys[i])>>]

\* sorted(items, key=count, reverse=True): stable, so equal counts keep
\* their insertion order
RECURSIVE SortedByCount(_)
SortedByCount(items) ==
    IF items = << >> THEN << >>
    ELSE LET best == CHOOSE i \in 1..Len(items) :
                        /\ \A j \in 1..Len(items) : items[i][2] >= items[j][2]
                        /\ \A j \in 1..(i - 1) : items[j][2] < items[i][2]
             rest == [k \in 1..(Len(items) - 1) |->
                         IF k < best THEN items[k] ELSE items[k + 1]]
         IN <<items[best]>> \o SortedByCount(rest)

\* Counter(values).most_common(1)[0][0], values not empty
MostCommonLast(values) ==
    LET items == Counter(values)
    IN items[Len(items)][1]

\* the value that first reaches the highest count
MostCommonFirstToReach(values) ==
    LET highest == CHOOSE c \in 1..Len(values) :
                      /\ \E v \in Range(values) : Count(values, v) = c
                      /\ \A v \in Range(values) : Count(values, v) <= c
        reached == CHOOSE k \in 1..Len(values) :
                      /\ Count(SubSeq(values, 1, k), values[k]) = highest
                      /\ \A j \in 1..(k - 1) :
                            Count(SubSeq(values, 1, j), values[j]) < highest
    IN values[reached]

MostCommon(values) == SortedByCount(Counter(values))[1][1]

(* ---------------- boss round: one task -------------------------------- *)
\* what calculate_miner_ranking_and_scores may return for miner results of
\* these hotkeys: the same hotkeys in ranked order, each with an adjusted loss
\* or none
RankingOutputs(hotkeys) ==
    LET results == [hotkey : hotkeys, adjusted_loss : AdjustedLosses \cup {NoLoss}]
    IN {r \in [1..Cardinality(hotkeys) -> results] :
          \A i, j \in 1..Len(r) : i # j => r[i].hotkey # r[j].hotkey}

\* the loop over ranked_results: boss loss, first non-boss hotkey and its loss
RECURSIVE ScanRanked(_, _)
ScanRanked(ranked_results, acc) ==
    IF ranked_results = << >> THEN acc
    ELSE LET result == Head(ranked_results)
             next == IF result.hotkey = EMISSION_BURN_HOTKEY
                     THEN [acc EXCEPT !.boss_loss = result.adjusted_loss]
                     ELSE IF acc.opponent_hotkey = None
                          THEN [acc EXCEPT !.opponent_hotkey = result.hotkey,
                                           !.opponent_loss = result.adjusted_loss]
                          ELSE acc
         IN ScanRanked(Tail(ranked_results), next)

NoLosses == [boss_loss |-> NoLoss, opponent_loss |-> NoLoss, opponent_hotkey |-> None]

\* the progressive threshold comparison; TRUE when the boss wins the task
BossBeatsOpponentNoThreshold(b_loss, o_loss, task_type, threshold) ==
    IF task_type = GRPOTASK
    THEN b_loss[1] * BasisPoints > o_loss[1] * BasisPoints
    ELSE b_loss[1] * BasisPoints < o_loss[1] * BasisPoints

BossBeatsOpponent(b_loss, o_loss, task_type, threshold) ==
    LET boss_multiplier == BasisPoints + threshold
        boss_divisor == BasisPoints - threshold
    IN IF task_type = GRPOTASK
       THEN b_loss[1] * boss_multiplier > o_loss[1] * BasisPoints
       ELSE b_loss[1] * boss_divisor < o_loss[1] * BasisPoints

\* training_statuses.get(hotkey) == TrainingStatus.SUCCESS
TrainingSuccess(statuses, hotkey) ==
    hotkey \in DOMAIN statuses /\ statuses[hotkey] = SUCCESS

\* the fallback on training status; SKIPPED when no winner is recorded
StatusFallbackBothFailedOpponent(statuses, b_loss, o_loss, o_hotkey) ==
    LET boss_training_success == TrainingSuccess(statuses, EMISSION_BURN_HOTKEY)
        opponent_training_success == TrainingSuccess(statuses, o_hotkey)
    IN IF opponent_training_success /\ ~boss_training_success THEN o_hotkey
       ELSE IF boss_training_success /\ ~opponent_training_success
            THEN EMISSION_BURN_HOTKEY
       ELSE IF ~boss_training_success /\ ~opponent_training_success
            THEN o_hotkey
       ELSE IF o_loss # NoLoss /\ b_loss = NoLoss THEN o_hotkey
       ELSE IF b_loss # NoLoss /\ o_loss = NoLoss THEN EMISSION_BURN_HOTKEY
       ELSE SKIPPED

StatusFallbackBothFailedSkips(statuses, b_loss, o_loss, o_hotkey) ==
    LET boss_training_success == TrainingSuccess(statuses, EMISSION_BURN_HOTKEY)
        opponent_training_success == TrainingSuccess(statuses, o_hotkey)
    IN IF opponent_training_success /\ ~boss_training_success THEN o_hotkey
       ELSE IF boss_training_success /\ ~opponent_training_success
            THEN EMISSION_BURN_HOTKEY
       ELSE IF o_loss # NoLoss /\ b_loss = NoLoss THEN o_hotkey
       ELSE IF b_loss # NoLoss /\ o_loss = NoLoss THEN EMISSION_BURN_HOTKEY
       ELSE SKIPPED

StatusFallback(statuses, b_loss, o_loss, o_hotkey) ==
    LET boss_training_success == TrainingSuccess(statuses, EMISSION_BURN_HOTKEY)
        opponent_training_success == TrainingSuccess(statuses, o_hotkey)
        boss_has_valid_eval == b_loss # NoLoss
        opponent_has_valid_eval == o_loss # NoLoss
    IN IF opponent_training_success /\ ~boss_training_success THEN o_hotkey
       ELSE IF boss_training_success /\ ~opponent_training_success
            THEN EMISSION_BURN_HOTKEY
       ELSE IF ~boss_training_success /\ ~opponent_training_success
            THEN EMISSION_BURN_HOTKEY
       ELSE IF opponent_has_valid_eval /\ ~boss_has_valid_eval THEN o_hotkey
       ELSE IF boss_has_valid_eval /\ ~opponent_has_valid_eval
            THEN EMISSION_BURN_HOTKEY
       ELSE SKIPPED

\* what get_training_status_for_task_and_hotkeys may return for the hotkeys
\* asked for: a status for each (an undefined hotkey has no row)
StatusMaps(hotkeys) ==
    [hotkeys \ {None} -> {SUCCESS, FAILURE}]

(* ---------------------------- state ----------------------------------- *)
VARIABLES
    pc,                   \* position of the call in progress
    call,                 \* the function called, None before any call
    completed_round,      \* [round_type, is_final_round] of get_round_winners
    tournament,           \* get_tournament's row, NoTournament when not found
    current_champion,
    consecutive_wins,
    threshold_percentage,
    processed,            \* tasks of round_tasks the loop has taken so far
    task_winners,         \* boss round: the per-task winners collected
    task_object,          \* get_task's row (its task type), None when not found
    scores_dicts,         \* rows read by the standalone score functions
    miner_results,        \* what the standalone get_task_results_for_ranking returned
    no_results,           \* boss round: "not miner_results" of the task in hand
    boss_loss,
    opponent_loss,
    opponent_hotkey,
    training_statuses,
    task_winner,          \* the winner the current task appended, or SKIPPED
    ranked_hotkeys,       \* history: hotkeys seen in ranked_results this round
    round_tasks,          \* group round: group_id of every task, in order
    group_index,          \* group round: groups of group_tasks done
    participant_hotkeys,  \* group round: members of the group in hand
    hotkey_win_counts,    \* group round: Counter items of the group in hand
    group_winners,        \* group round: advancers of the group in hand
    advancer_is_member,   \* history: for each advancer, was it a member of its group
    winners,              \* the list returned (being built while running)
    original_task,        \* replace_tournament_task: "present", "absent" or "deleted"
    node_rows,            \* nodes assigned to the original task, with repo names
    new_task,             \* the replacement task created, None before
    registered,           \* the replacement is a task of the round
    original_assigned_nodes, \* what get_nodes_assigned_to_task returned
    copied_nodes,         \* nodes assigned to the replacement so far
    raised_error          \* the exception that reached the caller, None if none

vars == <<pc, call, completed_round, tournament, current_champion,
          consecutive_wins, threshold_percentage, processed, task_winners,
          task_object, scores_dicts, miner_results, no_results, boss_loss,
          opponent_loss,
          opponent_hotkey, training_statuses, task_winner, ranked_hotkeys,
          round_tasks, group_index, participant_hotkeys, hotkey_win_counts,
          group_winners, advancer_is_member, winners, original_task,
          node_rows, new_task, registered, original_assigned_nodes,
          copied_nodes, raised_error>>

roundVars == <<completed_round, tournament, current_champion, consecutive_wins,
               threshold_percentage>>
taskVars == <<task_object, miner_results, no_results, boss_loss, opponent_loss,
              opponent_hotkey, training_statuses, task_winner>>
groupVars == <<round_tasks, group_index, participant_hotkeys, hotkey_win_counts,
               group_winners, advancer_is_member>>
replaceVars == <<original_task, node_rows, new_task, registered,
                 original_assigned_nodes, copied_nodes, raised_error>>
winnerVars == <<roundVars, taskVars, groupVars, processed, task_winners,
                scores_dicts, ranked_hotkeys, winners>>

BaseWinners == {None, "h1"}
Tournaments == [base_winner_hotkey : BaseWinners]
NoTournament == [missing |-> TRUE]
NoRound == [round_type |-> None, is_final_round |-> FALSE]

Init ==
    /\ pc = "idle"
    /\ call = None
    /\ completed_round = NoRound
    /\ tournament = NoTournament
    /\ current_champion = None
    /\ consecutive_wins = 0
    /\ threshold_percentage = 0
    /\ processed = 0
    /\ task_winners = << >>
    /\ task_object = None
    /\ scores_dicts = << >>
    /\ miner_results = << >>
    /\ no_results = FALSE
    /\ boss_loss = NoLoss
    /\ opponent_loss = NoLoss
    /\ opponent_hotkey = None
    /\ training_statuses = << >>
    /\ task_winner = None
    /\ ranked_hotkeys = {}
    /\ round_tasks = << >>
    /\ group_index = 0
    /\ participant_hotkeys = << >>
    /\ hotkey_win_counts = << >>
    /\ group_winners = << >>
    /\ advancer_is_member = << >>
    /\ winners = << >>
    /\ original_task = "absent"
    /\ node_rows = << >>
    /\ new_task = None
    /\ registered = FALSE
    /\ original_assigned_nodes = << >>
    /\ copied_nodes = << >>
    /\ raised_error = None

(* ---------------- the standalone score functions ---------------------- *)
GetTaskScoresAsModels ==
    /\ pc = "idle"
    /\ \E raw_scores \in ScoreLists :
         /\ scores_dicts' = raw_scores
         /\ winners' = TaskScoreModels(raw_scores)
    /\ call' = "get_task_scores_as_models"
    /\ pc' = "returned"
    /\ UNCHANGED <<roundVars, taskVars, groupVars, processed, task_winners,
                   ranked_hotkeys>>
    /\ UNCHANGED replaceVars

GetTaskResultsForRanking ==
    /\ pc = "idle"
    /\ \E rows \in ScoreLists, task \in TaskTypes \cup {None} :
         /\ scores_dicts' = rows
         /\ task_object' = task
         /\ miner_results' = get_task_results_for_ranking(rows, task)
         /\ winners' = get_task_results_for_ranking(rows, task)
    /\ call' = "get_task_results_for_ranking"
    /\ pc' = "returned"
    /\ UNCHANGED <<roundVars, no_results, boss_loss, opponent_loss,
                   opponent_hotkey, training_statuses, task_winner, groupVars,
                   processed, task_winners, ranked_hotkeys>>
    /\ UNCHANGED replaceVars

(* ---------------- get_round_winners: knockout, not final -------------- *)
RecordedWinners == {"h1", "h2", "h3"}

KnockoutRound ==
    /\ pc = "idle"
    /\ call' = "get_round_winners"
    /\ completed_round' = [round_type |-> KNOCKOUT, is_final_round |-> FALSE]
    /\ winners' = << >>
    /\ pc' = "knockout"
    /\ UNCHANGED <<tournament, current_champion, consecutive_wins,
                   threshold_percentage, taskVars, groupVars, processed,
                   task_winners, scores_dicts, ranked_hotkeys>>
    /\ UNCHANGED replaceVars

\* one pass of the loop: get_task_winner gives a hotkey or nothing
KnockoutTaskKeepNone ==
    /\ pc = "knockout"
    /\ processed < MaxTasks
    /\ processed' = processed + 1
    /\ \E winner \in RecordedWinners \cup {None} :
         /\ task_winner' = winner
         /\ winners' = Append(winners, winner)
    /\ UNCHANGED <<pc, call, roundVars, task_object, miner_results, no_results,
                   boss_loss, opponent_loss, opponent_hotkey, training_statuses,
                   groupVars, task_winners, scores_dicts, ranked_hotkeys>>
    /\ UNCHANGED replaceVars

KnockoutTask ==
    /\ pc = "knockout"
    /\ processed < MaxTasks
    /\ processed' = processed + 1
    /\ \E winner \in RecordedWinners \cup {None} :
         /\ task_winner' = winner
         /\ winners' = IF winner # None THEN Append(winners, winner) ELSE winners
    /\ UNCHANGED <<pc, call, roundVars, task_object, miner_results, no_results,
                   boss_loss, opponent_loss, opponent_hotkey, training_statuses,
                   groupVars, task_winners, scores_dicts, ranked_hotkeys>>
    /\ UNCHANGED replaceVars

KnockoutReturn ==
    /\ pc = "knockout"
    /\ pc' = "returned"
    /\ UNCHANGED <<call, roundVars, taskVars, groupVars, processed, task_winners,
                   scores_dicts, ranked_hotkeys, winners>>
    /\ UNCHANGED replaceVars

(* ---------------- get_round_winners: boss round ------------------------ *)
BossRound ==
    /\ pc = "idle"
    /\ call' = "get_round_winners"
    /\ completed_round' = [round_type |-> KNOCKOUT, is_final_round |-> TRUE]
    /\ \E row \in Tournaments \cup {NoTournament} :
         /\ tournament' = row
         /\ IF row = NoTournament
            THEN /\ winners' = << >>
                 /\ pc' = "returned"
                 /\ UNCHANGED <<current_champion, consecutive_wins,
                                threshold_percentage>>
            ELSE /\ current_champion' =
                        IF row.base_winner_hotkey # None
                        THEN row.base_winner_hotkey ELSE EMISSION_BURN_HOTKEY
                 /\ \E wins \in 0..MaxWins :
                      /\ consecutive_wins' = wins
                      /\ threshold_percentage' = get_progressive_threshold(wins)
                 /\ pc' = "boss"
                 /\ UNCHANGED winners
    /\ UNCHANGED <<taskVars, groupVars, processed, task_winners, scores_dicts,
                   ranked_hotkeys>>
    /\ UNCHANGED replaceVars

\* the winner a task with no valid results gets
NoResultsWinnerChampion == current_champion
NoResultsWinner == EMISSION_BURN_HOTKEY

ResultHotkeys(results) == {results[i].hotkey : i \in 1..Len(results)}

\* task types of boss round tasks: one that is GRPO and one that is not
BossTaskTypes == {INSTRUCTTEXTTASK, GRPOTASK}

\* get_task's row and what get_task_results_for_ranking made of the rows, for
\* every combination of score rows and task row
FetchOutcomes ==
    {[task_object |-> task,
      no_results |-> get_task_results_for_ranking(rows, task) = << >>,
      hotkeys |-> ResultHotkeys(get_task_results_for_ranking(rows, task))] :
        rows \in ScoreLists, task \in BossTaskTypes \cup {None}}

\* What one pass of the loop reads before it decides: get_task's row, whether
\* there are miner results, and what the scan of the ranking found.  Every
\* fetch outcome with every ranking output, each outcome once.
BossTaskReads ==
    UNION {
      IF fetched.no_results
      THEN {[task_object |-> fetched.task_object, no_results |-> TRUE,
             found |-> NoLosses, ranked |-> {}]}
      ELSE {[task_object |-> fetched.task_object, no_results |-> FALSE,
             found |-> ScanRanked(ranked_results, NoLosses),
             ranked |-> fetched.hotkeys]
            : ranked_results \in RankingOutputs(fetched.hotkeys)}
      : fetched \in FetchOutcomes}

\* one pass of the loop up to the point a winner is appended or a loss is
\* found missing
BossTask ==
    /\ pc = "boss"
    /\ processed < MaxTasks
    /\ processed' = processed + 1
    /\ \E read \in BossTaskReads :
         /\ task_object' = read.task_object
         /\ no_results' = read.no_results
         /\ boss_loss' = read.found.boss_loss
         /\ opponent_loss' = read.found.opponent_loss
         /\ opponent_hotkey' = read.found.opponent_hotkey
         /\ ranked_hotkeys' = ranked_hotkeys \cup read.ranked
         /\ IF read.no_results
            THEN /\ task_winners' = Append(task_winners, NoResultsWinner)
                 /\ task_winner' = NoResultsWinner
                 /\ pc' = "boss_decided"
            ELSE IF read.found.boss_loss = NoLoss \/ read.found.opponent_loss = NoLoss
            THEN /\ task_winner' = None
                 /\ pc' = "boss_status"
                 /\ UNCHANGED task_winners
            ELSE LET winner ==
                       IF BossBeatsOpponent(read.found.boss_loss,
                                            read.found.opponent_loss,
                                            read.task_object, threshold_percentage)
                       THEN EMISSION_BURN_HOTKEY ELSE read.found.opponent_hotkey
                 IN /\ task_winners' = Append(task_winners, winner)
                    /\ task_winner' = winner
                    /\ pc' = "boss_decided"
    /\ training_statuses' = << >>
    /\ UNCHANGED <<call, roundVars, miner_results, groupVars, scores_dicts,
                   winners>>
    /\ UNCHANGED replaceVars

\* a loss is missing: get_training_status_for_task_and_hotkeys decides
BossTrainingStatus ==
    /\ pc = "boss_status"
    /\ \E statuses \in StatusMaps({EMISSION_BURN_HOTKEY, opponent_hotkey}) :
         LET winner == StatusFallback(statuses, boss_loss, opponent_loss,
                                      opponent_hotkey)
         IN /\ training_statuses' = statuses
            /\ task_winner' = winner
            /\ task_winners' = IF winner = SKIPPED THEN task_winners
                               ELSE Append(task_winners, winner)
    /\ pc' = "boss_decided"
    /\ UNCHANGED <<call, roundVars, task_object, miner_results, no_results,
                   boss_loss, opponent_loss, opponent_hotkey, groupVars,
                   processed, scores_dicts, ranked_hotkeys, winners>>
    /\ UNCHANGED replaceVars

\* back to the head of the loop
BossNextTask ==
    /\ pc = "boss_decided"
    /\ pc' = "boss"
    /\ task_object' = None
    /\ no_results' = FALSE
    /\ boss_loss' = NoLoss
    /\ opponent_loss' = NoLoss
    /\ opponent_hotkey' = None
    /\ training_statuses' = << >>
    /\ task_winner' = None
    /\ UNCHANGED <<call, roundVars, miner_results, groupVars, processed,
                   task_winners, scores_dicts, ranked_hotkeys, winners>>
    /\ UNCHANGED replaceVars

\* after the loop: the majority vote, or the default
BossRoundWinnerChampion(votes) ==
    IF votes = << >> THEN current_champion ELSE MostCommon(votes)

BossRoundWinner(votes) ==
    IF votes = << >> THEN EMISSION_BURN_HOTKEY ELSE MostCommon(votes)

BossReturn ==
    /\ pc = "boss"
    /\ winners' = <<BossRoundWinner(task_winners)>>
    /\ pc' = "returned"
    /\ UNCHANGED <<call, roundVars, taskVars, groupVars, processed, task_winners,
                   scores_dicts, ranked_hotkeys>>
    /\ UNCHANGED replaceVars

(* ---------------- get_round_winners: group round ---------------------- *)
GroupIds == {"g1"}

\* get_tournament_group_members: nobody, or the four members of the group
GroupMemberLists == {<< >>, <<"a1", "a2", "a3", "a4">>}

TaskIdsOf(tasks, group_id) ==
    SelectSeq([i \in 1..Len(tasks) |-> i], LAMBDA i : tasks[i] = group_id)

\* group_tasks: the tasks that have a group_id, by group, groups in the order
\* of their first task
GroupTasks(tasks) ==
    LET with_group == SelectSeq(tasks, LAMBDA g : g # None)
        ids == CounterKeys(with_group)
    IN [k \in 1..Len(ids) |->
          [group_id |-> ids[k], task_ids |-> TaskIdsOf(tasks, ids[k])]]

Hotkeys(items) == [i \in 1..Len(items) |-> items[i][1]]

\* the advancers of one group, from the items of hotkey_win_counts
GroupAdvancersNoTie(items) ==
    LET sorted_participants == SortedByCount(items)
    IN IF Len(items) = 0 THEN << >>
       ELSE IF Len(sorted_participants) = 1 THEN <<sorted_participants[1][1]>>
       ELSE Hotkeys(SubSeq(sorted_participants, 1, NUM_WINNERS_TO_ADVANCE))

GroupAdvancers(items) ==
    LET sorted_participants == SortedByCount(items)
    IN IF Len(items) = 0 THEN << >>
       ELSE IF Len(sorted_participants) = 1 THEN <<sorted_participants[1][1]>>
       ELSE LET max_wins == sorted_participants[1][2]
                tied_for_first ==
                    Hotkeys(SelectSeq(sorted_participants,
                                      LAMBDA item : item[2] = max_wins))
            IN IF Len(tied_for_first) = 1
               THEN Hotkeys(SubSeq(sorted_participants, 1, NUM_WINNERS_TO_ADVANCE))
               ELSE tied_for_first

GroupRound ==
    /\ pc = "idle"
    /\ call' = "get_round_winners"
    /\ completed_round' = [round_type |-> GROUP, is_final_round |-> FALSE]
    /\ \E tasks \in SeqsUpTo(GroupIds \cup {None}, MaxGroupTasks) :
         round_tasks' = tasks
    /\ group_index' = 0
    /\ winners' = << >>
    /\ pc' = "group"
    /\ UNCHANGED <<tournament, current_champion, consecutive_wins,
                   threshold_percentage, taskVars, participant_hotkeys,
                   hotkey_win_counts, group_winners, advancer_is_member,
                   processed, task_winners, scores_dicts, ranked_hotkeys>>
    /\ UNCHANGED replaceVars

\* one pass of the loop over group_tasks: the members, then the recorded task
\* winners (one of the members, or none, for each task of the group)
GroupStep ==
    /\ pc = "group"
    /\ group_index < Len(GroupTasks(round_tasks))
    /\ group_index' = group_index + 1
    /\ LET group == GroupTasks(round_tasks)[group_index + 1]
       IN \E members \in GroupMemberLists :
            /\ participant_hotkeys' = members
            /\ IF members = << >> \/ group.task_ids = << >>
               THEN /\ hotkey_win_counts' = << >>
                    /\ group_winners' = << >>
                    /\ UNCHANGED <<winners, advancer_is_member>>
               ELSE \E recorded \in [1..Len(group.task_ids) ->
                                        Range(members) \cup {None}] :
                      LET values == SelectSeq(recorded, LAMBDA w : w # None)
                          items == Counter(values)
                          advancers == GroupAdvancers(items)
                      IN /\ hotkey_win_counts' = items
                         /\ group_winners' = advancers
                         /\ winners' = winners \o advancers
                         /\ advancer_is_member' = advancer_is_member \o
                                [k \in 1..Len(advancers) |->
                                    advancers[k] \in Range(members)]
    /\ UNCHANGED <<pc, call, roundVars, taskVars, round_tasks, processed,
                   task_winners, scores_dicts, ranked_hotkeys>>
    /\ UNCHANGED replaceVars

GroupReturn ==
    /\ pc = "group"
    /\ group_index = Len(GroupTasks(round_tasks))
    /\ pc' = "returned"
    /\ UNCHANGED <<call, roundVars, taskVars, groupVars, processed, task_winners,
                   scores_dicts, ranked_hotkeys, winners>>
    /\ UNCHANGED replaceVars

(* ---------------- replace_tournament_task ----------------------------- *)
Nodes == {"n1", "n2", "n3"}
RepoNames == {None, "repo"}

\* the nodes assigned to the original task, each with its expected repo name
\* or none
NodeRowLists ==
    {rows \in SeqsUpTo([hotkey : Nodes, expected_repo_name : RepoNames], MaxNodes) :
        \A i, j \in 1..Len(rows) : i # j => rows[i].hotkey # rows[j].hotkey}

\* get_task of the original: found, not found, or the lookup fails
ReplaceTournamentTask ==
    /\ pc = "idle"
    /\ call' = "replace_tournament_task"
    /\ \E rows \in NodeRowLists, outcome \in {"found", "not_found", "fails"} :
         /\ node_rows' = IF outcome = "not_found" THEN << >> ELSE rows
         /\ original_task' = IF outcome = "not_found" THEN "absent" ELSE "present"
         /\ IF outcome = "found"
            THEN pc' = "replace_create" /\ UNCHANGED raised_error
            ELSE /\ pc' = "raised"
                 /\ raised_error' = IF outcome = "not_found" THEN "ValueError"
                              ELSE "get_task"
    /\ UNCHANGED <<winnerVars, new_task, registered, original_assigned_nodes,
                   copied_nodes>>

\* create_new_task_of_same_type: an exception is logged and raised again
ReplaceCreate ==
    /\ pc = "replace_create"
    /\ \E ok \in BOOLEAN :
         IF ok
         THEN /\ new_task' = "new_task"
              /\ pc' = "replace_register"
              /\ UNCHANGED raised_error
         ELSE raised_error' = "create_new_task_of_same_type" /\ pc' = "raised"
              /\ UNCHANGED new_task
    /\ UNCHANGED <<call, winnerVars, original_task, node_rows, registered,
                   original_assigned_nodes, copied_nodes>>

\* add_tournament_tasks: an exception is logged and raised again
ReplaceRegisterSwallowed ==
    /\ pc = "replace_register"
    /\ \E ok \in BOOLEAN : registered' = ok
    /\ pc' = "replace_nodes"
    /\ UNCHANGED <<call, winnerVars, original_task, node_rows, new_task,
                   original_assigned_nodes, copied_nodes, raised_error>>

ReplaceRegister ==
    /\ pc = "replace_register"
    /\ \E ok \in BOOLEAN :
         IF ok
         THEN /\ registered' = TRUE
              /\ pc' = "replace_nodes"
              /\ UNCHANGED raised_error
         ELSE raised_error' = "add_tournament_tasks" /\ pc' = "raised"
              /\ UNCHANGED registered
    /\ UNCHANGED <<call, winnerVars, original_task, node_rows, new_task,
                   original_assigned_nodes, copied_nodes>>

\* get_nodes_assigned_to_task
ReplaceReadNodes ==
    /\ pc = "replace_nodes"
    /\ \E ok \in BOOLEAN :
         IF ok
         THEN /\ original_assigned_nodes' =
                    [k \in 1..Len(node_rows) |-> node_rows[k].hotkey]
              /\ pc' = "replace_copy"
              /\ UNCHANGED raised_error
         ELSE raised_error' = "get_nodes_assigned_to_task" /\ pc' = "raised"
              /\ UNCHANGED original_assigned_nodes
    /\ UNCHANGED <<call, winnerVars, original_task, node_rows, new_task,
                   registered, copied_nodes>>

\* one pass of the loop over the nodes: assign_node_to_task, then
\* get_expected_repo_name and, when there is a name, set_expected_repo_name;
\* an exception of any of them leaves the function
ReplaceCopyNode ==
    /\ pc = "replace_copy"
    /\ Len(copied_nodes) < Len(original_assigned_nodes)
    /\ LET node == original_assigned_nodes[Len(copied_nodes) + 1]
           row == node_rows[Len(copied_nodes) + 1]
       IN \E failing \in {None, "assign_node_to_task", "get_expected_repo_name",
                          "set_expected_repo_name"} :
            IF failing = "assign_node_to_task"
            THEN /\ raised_error' = failing
                 /\ pc' = "raised"
                 /\ UNCHANGED copied_nodes
            ELSE IF failing = "get_expected_repo_name"
                    \/ (failing = "set_expected_repo_name"
                        /\ row.expected_repo_name # None)
            THEN /\ raised_error' = failing
                 /\ pc' = "raised"
                 /\ copied_nodes' = Append(copied_nodes,
                        [hotkey |-> node, expected_repo_name |-> None])
            ELSE /\ copied_nodes' = Append(copied_nodes,
                        [hotkey |-> node,
                         expected_repo_name |-> row.expected_repo_name])
                 /\ UNCHANGED <<pc, raised_error>>
    /\ UNCHANGED <<call, winnerVars, original_task, node_rows, new_task,
                   registered, original_assigned_nodes>>

\* after the loop: delete_task of the original, then return
ReplaceDelete ==
    /\ pc = "replace_copy"
    /\ Len(copied_nodes) = Len(original_assigned_nodes)
    /\ \E ok \in BOOLEAN :
         IF ok
         THEN /\ original_task' = "deleted"
              /\ pc' = "returned"
              /\ UNCHANGED raised_error
         ELSE /\ raised_error' = "delete_task"
              /\ pc' = "raised"
              /\ UNCHANGED original_task
    /\ UNCHANGED <<call, winnerVars, node_rows, new_task, registered,
                   original_assigned_nodes, copied_nodes>>

Next ==
    \/ GetTaskScoresAsModels
    \/ GetTaskResultsForRanking
    \/ KnockoutRound
    \/ KnockoutTask
    \/ KnockoutReturn
    \/ BossRound
    \/ BossTask
    \/ BossTrainingStatus
    \/ BossNextTask
    \/ BossReturn
    \/ GroupRound
    \/ GroupStep
    \/ GroupReturn
    \/ ReplaceTournamentTask
    \/ ReplaceCreate
    \/ ReplaceRegister
    \/ ReplaceReadNodes
    \/ ReplaceCopyNode
    \/ ReplaceDelete

Spec == Init /\ [][Next]_vars

(* ---------------- the vote of a boss round on its own ------------------ *)
\* the boss round at the end of its loop, with any per-task winners
InitVote ==
    /\ pc = "boss"
    /\ call = "get_round_winners"
    /\ completed_round = [round_type |-> KNOCKOUT, is_final_round |-> TRUE]
    /\ \E row \in Tournaments :
         /\ tournament = row
         /\ current_champion = IF row.base_winner_hotkey # None
                                THEN row.base_winner_hotkey
                                ELSE EMISSION_BURN_HOTKEY
    /\ consecutive_wins = 0
    /\ threshold_percentage = get_progressive_threshold(0)
    /\ \E votes \in SeqsUpTo(BossRoundHotkeys, MaxVotes) :
         /\ task_winners = votes
         /\ processed = Len(votes)
         /\ ranked_hotkeys = Range(votes)
    /\ task_object = None
    /\ scores_dicts = << >>
    /\ miner_results = << >>
    /\ no_results = FALSE
    /\ boss_loss = NoLoss
    /\ opponent_loss = NoLoss
    /\ opponent_hotkey = None
    /\ training_statuses = << >>
    /\ task_winner = None
    /\ round_tasks = << >>
    /\ group_index = 0
    /\ participant_hotkeys = << >>
    /\ hotkey_win_counts = << >>
    /\ group_winners = << >>
    /\ advancer_is_member = << >>
    /\ winners = << >>
    /\ original_task = "absent"
    /\ node_rows = << >>
    /\ new_task = None
    /\ registered = FALSE
    /\ original_assigned_nodes = << >>
    /\ copied_nodes = << >>
    /\ raised_error = None

NextVote == BossReturn

VoteSpec == InitVote /\ [][NextVote]_vars

(* ---------------------------- properties ------------------------------ *)
\* a boss round whose tournament was found: the threshold has been computed
BossRoundStarted ==
    /\ call = "get_round_winners"
    /\ completed_round.round_type = KNOCKOUT
    /\ completed_round.is_final_round
    /\ tournament # NoTournament

\* the loop pass in hand has compared two adjusted losses
ThresholdCompared ==
    /\ BossRoundStarted
    /\ pc = "boss_decided"
    /\ ~no_results
    /\ boss_loss # NoLoss
    /\ opponent_loss # NoLoss

\* C1: get_progressive_threshold gives the first-defense threshold (0.10)
\* for every consecutive_wins <= 1, the second-defense threshold (0.075) for
\* consecutive_wins = 2 and the steady-state threshold (0.05) for every
\* consecutive_wins >= 3; it has a value for every non-negative count.
C1_ProgressiveThreshold ==
    BossRoundStarted =>
        /\ consecutive_wins <= 1 => threshold_percentage * 10 = BasisPoints
        /\ consecutive_wins = 2 => threshold_percentage * 40 = 3 * BasisPoints
        /\ consecutive_wins >= 3 => threshold_percentage * 20 = BasisPoints

C1_Witness ==
    /\ BossRoundStarted
    /\ consecutive_wins = 2
    /\ threshold_percentage = SECOND_DEFENSE_THRESHOLD

\* C2: when both adjusted losses of a boss-round task are present, the task
\* winner is the champion iff champion_loss * (1 - threshold) < opponent_loss
\* for a lower-is-better task and iff champion_loss * (1 + threshold) >
\* opponent_loss for a GRPO task; otherwise it is the opponent.  So 1.0 vs
\* 0.95 at 10% gives the champion, 1.0 vs 0.85 at 10% the opponent, and GRPO
\* 10 vs 10.5 at 5% the opponent.
C2_ThresholdComparison ==
    ThresholdCompared =>
        /\ task_winner \in {EMISSION_BURN_HOTKEY, opponent_hotkey}
        /\ task_winner = EMISSION_BURN_HOTKEY <=>
              IF task_object = GRPOTASK
              THEN boss_loss[1] * (BasisPoints + threshold_percentage)
                     > opponent_loss[1] * BasisPoints
              ELSE boss_loss[1] * (BasisPoints - threshold_percentage)
                     < opponent_loss[1] * BasisPoints
        /\ (/\ task_object # GRPOTASK /\ threshold_percentage = 1000
            /\ boss_loss = <<100>> /\ opponent_loss = <<95>>)
              => task_winner = EMISSION_BURN_HOTKEY
        /\ (/\ task_object # GRPOTASK /\ threshold_percentage = 1000
            /\ boss_loss = <<100>> /\ opponent_loss = <<85>>)
              => task_winner = opponent_hotkey
        /\ (/\ task_object = GRPOTASK /\ threshold_percentage = 500
            /\ boss_loss = <<100>> /\ opponent_loss = <<105>>)
              => task_winner = opponent_hotkey

C2_Witness ==
    /\ ThresholdCompared
    /\ task_object = INSTRUCTTEXTTASK
    /\ threshold_percentage = 1000
    /\ boss_loss = <<100>>
    /\ opponent_loss = <<95>>
    /\ task_winner = EMISSION_BURN_HOTKEY

\* a group of a group round has been decided from at least one recorded win
GroupDecided ==
    /\ call = "get_round_winners"
    /\ completed_round.round_type = GROUP
    /\ group_index >= 1
    /\ hotkey_win_counts # << >>

\* the recorded wins of a member of the group in hand
WinsOf(hotkey) ==
    IF \E i \in 1..Len(hotkey_win_counts) : hotkey_win_counts[i][1] = hotkey
    THEN hotkey_win_counts[CHOOSE i \in 1..Len(hotkey_win_counts) :
                             hotkey_win_counts[i][1] = hotkey][2]
    ELSE 0

Members == Range(participant_hotkeys)
MaxWinCount == CHOOSE c \in 0..(MaxGroupTasks + 1) :
                  /\ \E h \in Members : WinsOf(h) = c
                  /\ \A h \in Members : WinsOf(h) <= c
TiedForFirst == {h \in Members : WinsOf(h) = MaxWinCount}
WithWins == {h \in Members : WinsOf(h) > 0}

\* the top two by win count of a set of hotkeys
IsTopTwoOf(advancers, hotkeys) ==
    /\ Len(advancers) = 2
    /\ advancers[1] # advancers[2]
    /\ Range(advancers) \subseteq hotkeys
    /\ WinsOf(advancers[1]) >= WinsOf(advancers[2])
    /\ \A h \in hotkeys \ Range(advancers) : WinsOf(advancers[2]) >= WinsOf(h)

WinCountsAre(a1, a2, a3, a4) ==
    /\ WinsOf("a1") = a1 /\ WinsOf("a2") = a2
    /\ WinsOf("a3") = a3 /\ WinsOf("a4") = a4

GroupExamples ==
    /\ WinCountsAre(3, 2, 1, 0) => Range(group_winners) = {"a1", "a2"}
    /\ WinCountsAre(2, 2, 1, 0) => Range(group_winners) = {"a1", "a2"}
    /\ WinCountsAre(2, 2, 2, 0) => Range(group_winners) = {"a1", "a2", "a3"}

\* C3 as stated: for every group with at least one recorded task win, if
\* exactly one participant has the maximum win count the top 2 participants
\* by win count advance; if more than one ties for the maximum, exactly the
\* tied participants advance.
C3_TopTwoOfParticipants ==
    GroupDecided =>
        /\ Cardinality(TiedForFirst) = 1 => IsTopTwoOf(group_winners, Members)
        /\ Cardinality(TiedForFirst) > 1 =>
              /\ Range(group_winners) = TiedForFirst
              /\ Len(group_winners) = Cardinality(TiedForFirst)
        /\ GroupExamples

\* C3 amended: for every group with at least one recorded task win, if
\* exactly one participant has the maximum win count, the top 2 by win count
\* of the participants that won at least one task advance, and that
\* participant alone when no other participant won a task; if more than one
\* ties for the maximum, exactly the tied participants advance ({A:3,B:2,C:1,
\* D:0} give {A,B}; {A:2,B:2,C:1} give {A,B}; {A:2,B:2,C:2} give {A,B,C}).
C3_TopTwoOfTaskWinners ==
    GroupDecided =>
        /\ (Cardinality(TiedForFirst) = 1 /\ Cardinality(WithWins) > 1) =>
              IsTopTwoOf(group_winners, WithWins)
        /\ (Cardinality(TiedForFirst) = 1 /\ Cardinality(WithWins) = 1) =>
              /\ Len(group_winners) = 1
              /\ Range(group_winners) = TiedForFirst
        /\ Cardinality(TiedForFirst) > 1 =>
              /\ Range(group_winners) = TiedForFirst
              /\ Len(group_winners) = Cardinality(TiedForFirst)
        /\ GroupExamples

C3_Witness ==
    /\ GroupDecided
    /\ WinCountsAre(3, 2, 1, 0)
    /\ Range(group_winners) = {"a1", "a2"}

\* get_round_winners has returned from a knockout round
KnockoutReturned ==
    /\ call = "get_round_winners"
    /\ completed_round.round_type = KNOCKOUT
    /\ pc = "returned"

BossRoundReturned == BossRoundStarted /\ pc = "returned"

C6_StructuralErrorsFail ==
    /\ ~(KnockoutReturned /\ completed_round.is_final_round
          /\ tournament = NoTournament)
    /\ ~(BossRoundStarted /\ pc = "boss_decided" /\ task_object = None
          /\ task_winner \in BossRoundHotkeys)

\* C7 as stated: for every knockout round, final or not, and every number of
\* tasks and combination of recorded task winners, the winner list returned
\* by get_knockout_winners has exactly one element.
C7_KnockoutSingleton ==
    KnockoutReturned => Len(winners) = 1

\* C7 amended: the winner list of a boss round whose tournament is found has
\* exactly one element; that of a boss round whose tournament is not found
\* is empty; that of a knockout round that is not final has one element for
\* each task with a recorded winner, in task order, so any number from none
\* to the number of tasks.
C7_KnockoutWinnerCount ==
    /\ [](KnockoutReturned =>
            IF completed_round.is_final_round
            THEN Len(winners) = IF tournament = NoTournament THEN 0 ELSE 1
            ELSE Len(winners) <= processed /\ None \notin Range(winners))
    /\ [][(pc = "knockout" /\ processed' = processed + 1) =>
            winners' = IF task_winner' = None THEN winners
                       ELSE Append(winners, task_winner')]_vars

C7_Witness ==
    /\ KnockoutReturned
    /\ ~completed_round.is_final_round
    /\ processed = 3
    /\ Len(winners) = 2

RowsOf(hotkey) == {i \in 1..Len(scores_dicts) : scores_dicts[i].hotkey = hotkey}
BothLossesValid(row) == ValidLoss(row.test_loss) /\ ValidLoss(row.synth_loss)

ScoresAsModelsReturned ==
    call = "get_task_scores_as_models" /\ pc = "returned"
ResultsForRankingReturned ==
    call = "get_task_results_for_ranking" /\ pc = "returned"

\* get_task_scores_as_models returns exactly the rows with both losses valid
ModelsAreValidRows ==
    ScoresAsModelsReturned =>
        /\ \A k \in 1..Len(winners) :
              /\ BothLossesValid(winners[k])
              /\ \E i \in RowsOf(winners[k].hotkey) :
                    /\ scores_dicts[i].test_loss = winners[k].test_loss
                    /\ scores_dicts[i].synth_loss = winners[k].synth_loss
        /\ \A i \in 1..Len(scores_dicts) :
              BothLossesValid(scores_dicts[i]) =>
                  \E k \in 1..Len(winners) :
                      winners[k].hotkey = scores_dicts[i].hotkey
        /\ (\A i \in 1..Len(scores_dicts) : ~BothLossesValid(scores_dicts[i]))
              => winners = << >>

\* C9 as stated: a score record whose test loss or synthetic loss is missing
\* or NaN is absent from the output of get_task_scores_as_models and from
\* the results get_task_results_for_ranking hands to the ranking step; when
\* no record is valid the result is an empty collection, not an error.
C9_InvalidRecordsDropped ==
    /\ ModelsAreValidRows
    /\ ResultsForRankingReturned =>
          /\ \A k \in 1..Len(miner_results) :
                \A i \in RowsOf(miner_results[k].hotkey) :
                    BothLossesValid(scores_dicts[i])
          /\ (\A i \in 1..Len(scores_dicts) : ~BothLossesValid(scores_dicts[i]))
                => miner_results = << >>

\* C9 amended: a score record whose test loss or synthetic loss is missing
\* or NaN is absent from the output of get_task_scores_as_models; from the
\* results get_task_results_for_ranking hands to the ranking step a record
\* is absent when its test loss is missing or NaN, while a record whose
\* synthetic loss alone is missing or NaN is kept with the synthetic loss
\* 1000.0; when no record has a valid test loss (or both, for
\* get_task_scores_as_models) the result is an empty collection, not an
\* error.
C9_InvalidTestLossDropped ==
    /\ ModelsAreValidRows
    /\ ResultsForRankingReturned =>
          /\ \A k \in 1..Len(miner_results) :
                /\ ValidLoss(miner_results[k].synth_loss)
                /\ \A i \in RowsOf(miner_results[k].hotkey) :
                      /\ ValidLoss(scores_dicts[i].test_loss)
                      /\ miner_results[k].test_loss = scores_dicts[i].test_loss
                      /\ miner_results[k].synth_loss =
                            IF ValidLoss(scores_dicts[i].synth_loss)
                            THEN scores_dicts[i].synth_loss ELSE "1000.0"
          /\ task_object # None =>
                \A i \in 1..Len(scores_dicts) :
                    ValidLoss(scores_dicts[i].test_loss) =>
                        \E k \in 1..Len(miner_results) :
                            miner_results[k].hotkey = scores_dicts[i].hotkey
          /\ (\A i \in 1..Len(scores_dicts) :
                 ~ValidLoss(scores_dicts[i].test_loss)) => miner_results = << >>

C9_Witness ==
    /\ ResultsForRankingReturned
    /\ Len(scores_dicts) = 2
    /\ ~ValidLoss(scores_dicts[1].test_loss)
    /\ ValidLoss(scores_dicts[2].test_loss)
    /\ scores_dicts[2].synth_loss = NaN
    /\ Len(miner_results) = 1
    /\ miner_results[1].hotkey = scores_dicts[2].hotkey
    /\ miner_results[1].synth_loss = "1000.0"

\* the votes a hotkey has among the per-task winners collected
VotesFor(hotkey) ==
    Cardinality({k \in 1..Len(task_winners) : task_winners[k] = hotkey})

\* C10: in a boss round with at least one per-task winner, the round winner
\* is a hotkey whose number of task wins is maximal among the per-task
\* winners collected; a hotkey that won a strict majority of the tasks that
\* produced a winner is the round winner; a skipped task adds no vote.
C10_MajorityVote ==
    /\ (BossRoundReturned /\ task_winners # << >>) =>
          /\ Len(winners) = 1
          /\ winners[1] \in Range(task_winners)
          /\ \A h \in Range(task_winners) : VotesFor(winners[1]) >= VotesFor(h)
          /\ \A h \in Range(task_winners) :
                2 * VotesFor(h) > Len(task_winners) => winners = <<h>>
    /\ BossRoundStarted =>
          /\ SKIPPED \notin Range(task_winners)
          /\ Len(task_winners) <= processed
          /\ pc = "boss_decided" =>
                IF task_winner = SKIPPED
                THEN Len(task_winners) < processed
                ELSE /\ task_winners # << >>
                     /\ task_winners[Len(task_winners)] = task_winner

C10_Witness ==
    /\ BossRoundReturned
    /\ task_winners = <<"h1", EMISSION_BURN_HOTKEY, EMISSION_BURN_HOTKEY>>
    /\ winners = <<EMISSION_BURN_HOTKEY>>

\* the highest number of votes, and the hotkeys that have it
HighestVotes == CHOOSE c \in 0..Len(task_winners) :
                   /\ \E h \in Range(task_winners) : VotesFor(h) = c
                   /\ \A h \in Range(task_winners) : VotesFor(h) <= c
TopVoted == {h \in Range(task_winners) : VotesFor(h) = HighestVotes}

\* the task at which a hotkey first wins, and at which it reaches the
\* highest count
FirstWinOf(hotkey) ==
    CHOOSE k \in 1..Len(task_winners) :
        /\ task_winners[k] = hotkey
        /\ \A j \in 1..(k - 1) : task_winners[j] # hotkey
ReachesHighestAt(hotkey) ==
    CHOOSE k \in 1..Len(task_winners) :
        /\ task_winners[k] = hotkey
        /\ Cardinality({j \in 1..k : task_winners[j] = hotkey}) = HighestVotes

VoteTied ==
    BossRoundReturned /\ task_winners # << >> /\ Cardinality(TopVoted) > 1

\* C11 as stated: in a boss round where several hotkeys share the highest
\* per-task win count, the round winner is the hotkey that first reaches
\* that count when the task winners are scanned in processing order.
C11_FirstToReachHighest ==
    VoteTied =>
        /\ winners[1] \in TopVoted
        /\ \A h \in TopVoted : ReachesHighestAt(winners[1]) <= ReachesHighestAt(h)

\* C11 amended: in a boss round where several hotkeys share the highest
\* per-task win count, the round winner is the one of them that first wins
\* a task when the task winners are scanned in processing order.
C11_FirstToWinATask ==
    VoteTied =>
        /\ winners[1] \in TopVoted
        /\ \A h \in TopVoted : FirstWinOf(winners[1]) <= FirstWinOf(h)

C11_Witness ==
    /\ VoteTied
    /\ task_winners = <<"h1", EMISSION_BURN_HOTKEY, EMISSION_BURN_HOTKEY, "h1">>
    /\ winners = <<"h1">>

\* the loop pass in hand found a loss missing and asked for training status
StatusDecided ==
    /\ BossRoundStarted
    /\ pc = "boss_decided"
    /\ ~no_results
    /\ (boss_loss = NoLoss \/ opponent_loss = NoLoss)

Succeeded(hotkey) ==
    hotkey \in DOMAIN training_statuses /\ training_statuses[hotkey] = SUCCESS

\* C12: in a boss-round task where the champion's or the opponent's adjusted
\* loss is missing, the outcome follows training status: opponent succeeded
\* and champion failed gives the opponent; champion succeeded and opponent
\* failed gives the champion; both failed gives the champion; both succeeded
\* gives the side that has a loss when exactly one has, and otherwise the
\* task is skipped and records no winner.
C12_TrainingStatusFallback ==
    StatusDecided =>
        LET boss_ok == Succeeded(EMISSION_BURN_HOTKEY)
            opponent_ok == Succeeded(opponent_hotkey)
        IN /\ (opponent_ok /\ ~boss_ok) => task_winner = opponent_hotkey
           /\ (boss_ok /\ ~opponent_ok) => task_winner = EMISSION_BURN_HOTKEY
           /\ (~boss_ok /\ ~opponent_ok) => task_winner = EMISSION_BURN_HOTKEY
           /\ (boss_ok /\ opponent_ok) =>
                 task_winner = IF opponent_loss # NoLoss THEN opponent_hotkey
                               ELSE IF boss_loss # NoLoss
                                    THEN EMISSION_BURN_HOTKEY
                               ELSE SKIPPED
           /\ IF task_winner = SKIPPED
              THEN Len(task_winners) < processed
              ELSE /\ task_winners # << >>
                   /\ task_winners[Len(task_winners)] = task_winner

C12_Witness ==
    /\ StatusDecided
    /\ Succeeded(EMISSION_BURN_HOTKEY)
    /\ Succeeded(opponent_hotkey)
    /\ boss_loss = NoLoss
    /\ opponent_loss = NoLoss
    /\ task_winner = SKIPPED
    /\ task_winners = << >>

\* the loop pass in hand found no valid results for its task
NoResultsDecided ==
    BossRoundStarted /\ pc = "boss_decided" /\ no_results

Reorderings(len) ==
    {f \in [1..len -> 1..len] : \A i, j \in 1..len : i # j => f[i] # f[j]}
Reordered(list, f) == [k \in 1..Len(list) |-> list[f[k]]]

\* C14: the set of hotkeys returned for a round does not depend on the order
\* in which the round's tasks and their recorded winners are processed or
\* tallied, except in a boss round when several hotkeys tie for the highest
\* per-task win count; for a group round the advancers of each group are
\* determined by the win counts alone.
C14_OrderIndependent ==
    /\ GroupDecided =>
          \A f \in Reorderings(Len(hotkey_win_counts)) :
              Range(GroupAdvancers(Reordered(hotkey_win_counts, f)))
                  = Range(group_winners)
    /\ (BossRoundReturned /\ task_winners # << >> /\ Cardinality(TopVoted) = 1) =>
          \A f \in Reorderings(Len(task_winners)) :
              <<BossRoundWinner(Reordered(task_winners, f))>> = winners
    /\ (KnockoutReturned /\ ~completed_round.is_final_round) =>
          Len(winners) <= processed

\* the ranked results of the task in hand held no hotkey but the boss's
OpponentUndefined ==
    /\ BossRoundStarted
    /\ pc = "boss_decided"
    /\ ~no_results
    /\ opponent_hotkey = None

\* C15: the per-task winners of a boss round never contain a null identity:
\* when the ranked results of a task contain no participant but the boss,
\* the task is awarded to the boss hotkey or skipped, never to the undefined
\* opponent (the training-status lookup reports no success for an undefined
\* hotkey).
C15_NoNullWinner ==
    /\ None \notin Range(task_winners)
    /\ BossRoundReturned => None \notin Range(winners)
    /\ OpponentUndefined =>
          /\ task_winner \in {EMISSION_BURN_HOTKEY, SKIPPED}
          /\ opponent_loss = NoLoss

C15_Witness ==
    /\ OpponentUndefined
    /\ ~Succeeded(EMISSION_BURN_HOTKEY)
    /\ boss_loss # NoLoss
    /\ task_winner = EMISSION_BURN_HOTKEY
    /\ task_winners = <<EMISSION_BURN_HOTKEY>>

\* C16: in a boss-round task where both adjusted losses are present, a
\* champion whose loss is at least as good as the opponent's (less than or
\* equal for lower-is-better, greater than or equal for GRPO) wins the task
\* for every threshold the policy can return, for all loss values, zero and
\* negative ones included.
C16_ChampionAtLeastAsGoodWins ==
    ThresholdCompared =>
        /\ (task_object # GRPOTASK /\ boss_loss[1] <= opponent_loss[1])
              => task_winner = EMISSION_BURN_HOTKEY
        /\ (task_object = GRPOTASK /\ boss_loss[1] >= opponent_loss[1])
              => task_winner = EMISSION_BURN_HOTKEY

\* C17: replace_tournament_task deletes the original task only after the
\* replacement has been created, registered in the round and given a copy of
\* every node assigned to the original; in every execution in which an
\* earlier step fails (original not found, creation, registration or a node
\* copy fails) the original is not deleted and the error reaches the caller.
C17_DeleteAfterCopy ==
    call = "replace_tournament_task" =>
        /\ original_task = "deleted" =>
              /\ new_task # None
              /\ registered
              /\ copied_nodes = node_rows
              /\ raised_error = None
        /\ raised_error # None => (pc = "raised" /\ original_task # "deleted")
        /\ pc = "raised" => raised_error # None
        /\ pc = "returned" => (original_task = "deleted" /\ raised_error = None)

C17_Witness ==
    /\ call = "replace_tournament_task"
    /\ pc = "returned"
    /\ original_task = "deleted"
    /\ Len(copied_nodes) = 2
    /\ copied_nodes[1].expected_repo_name = "repo"
    /\ copied_nodes[2].expected_repo_name = None

====
